---- MODULE Spec2Model ----
(***************************************************************************)
(* WorkerPoolManager: the WorkerPool class of src/workerManager.js (the    *)
(* version with worker pools, lines 173-366), the child side of the        *)
(* message protocol (src/workers/exampleWorker_CPULoad.js) and the host    *)
(* application's use of the manager (src/app.js).  executePoolWorkerTask   *)
(* and executeOneShotWorkerTask, which src/app.js calls, are not defined   *)
(* in src/workerManager.js; they follow the specification.                 *)
(*                                                                         *)
(* JavaScript values: null/undefined is the string NULL, an absent or      *)
(* falsy configuration field is "" (strings) or 0 (numbers), an absent     *)
(* configuration has defined = FALSE, and the                              *)
(* numeric exit codes of a child are the strings "0" and "1", so that one  *)
(* parameter can hold a pool name or an exit code as it does in the code.  *)
(* A JavaScript Set is a sequence without duplicates (insertion order).    *)
(***************************************************************************)
EXTENDS Integers, Sequences, FiniteSets, TLC

VARIABLES
  workerSet,      \* this.workerSet: all active worker handles, insertion order
  workerPools,    \* this.workerPools: pool name -> Set of worker handles
  pendingTasks,   \* this.pendingTasks: queue of {task, callback}
  taskCallbacks,  \* this.taskCallbacks: task id -> callback
  handles,        \* per forked worker: poolName, memoryLimit, workerScript, runningTasks
  sent,           \* per worker: the messages sent on its channel, in send order
  nextPid,        \* the next worker handle to be forked
  nextId,         \* the next task id (uuid source)
  alive,          \* the host process (manager) is running
  terminateCalls, \* the number of terminateWorkers calls made by callers
  inited,         \* the host has called initWorkerPools
  proc,           \* per worker: the child process is "running" or "exited"
  initDone,       \* per worker: the child has answered INIT with INIT_DONE
  working,        \* per worker: ids of the WORK messages it has not answered
  subs,           \* history: the submissions made so far, one record each
  dispatchLog,    \* history: one record per WORK message sent by processNextTask
  called,         \* history: per callback, the replies it was invoked with
  exits,          \* history: per worker whose "exit" event was handled, (code, signal)
                  \* and the number of dispatches made before (at)
  loaded,         \* history: the pool descriptors initWorkerPools was called with
  replies,        \* history: per child, the messages it sent to its parent
                  \* under the protocol driver, and its stray replies
  lastRet         \* the last call of the manager's API: the operation, the
                  \* poolName and the task id the caller passed (0: none), and
                  \* what the call returned or threw

vars == <<workerSet, workerPools, pendingTasks, taskCallbacks, handles, sent,
          nextPid, nextId, alive, inited, terminateCalls, proc, initDone, working, subs,
          dispatchLog, called, exits, loaded, replies, lastRet>>

-----------------------------------------------------------------------------
(* Bounds of the model *)
MaxWorkers == 2
MaxTasks == 2
MaxTerminateCalls == 1

(* Values *)
NULL == "null"
PoolNames == {"CPU", "MEM"}
UnknownPools == {"NOPE"}
Signals == {"SIGKILL"}
DefaultPool == "default"
OneShotPool == "one-shot"
DefaultMemoryLimit == 4096
InitMemoryFallback == 1
InitCountFallback == 1

MESSAGE_TYPES == [INIT |-> "init", INIT_DONE |-> "initDone", WORK |-> "work",
                  WORK_DONE |-> "workDone", TERMINATE |-> "terminate",
                  ERROR |-> "error"]

(* Sequences used as JavaScript Sets and arrays *)
Range(s) == {s[i] : i \in DOMAIN s}
SetAdd(s, x) == IF x \in Range(s) THEN s ELSE Append(s, x)
SetDelete(s, x) == SelectSeq(s, LAMBDA y : y # x)
MapSet(f, k, v) == [x \in DOMAIN f \cup {k} |-> IF x = k THEN v ELSE f[x]]
MapDelete(f, k) == [x \in DOMAIN f \ {k} |-> f[x]]

(* What a handler returns: undefined, the boolean false, or an object     *)
(* {ok, message}; a message is the sequence of the parts concatenated.    *)
Undefined == [kind |-> "undefined", ok |-> FALSE, message |-> <<>>]
ReturnFalse == [kind |-> "false", ok |-> FALSE, message |-> <<>>]
ReturnObject(ok, message) == [kind |-> "object", ok |-> ok, message |-> message]

(* The manager's state as one record, so that a handler is a function from *)
(* the state before it to the state after it.  threw: an exception is      *)
(* propagating out of the handler; ret: the handler's return value.        *)
Mgr == [workerSet |-> workerSet, workerPools |-> workerPools,
        pendingTasks |-> pendingTasks, taskCallbacks |-> taskCallbacks,
        handles |-> handles, sent |-> sent, nextPid |-> nextPid,
        dispatchLog |-> dispatchLog, called |-> called,
        threw |-> FALSE, ret |-> Undefined]

-----------------------------------------------------------------------------
(* worker.send({ type: MESSAGE_TYPES.INIT }) on the channel of the fresh   *)
(* worker w.                                                               *)
sendInit_omitted(s, w) == MapSet(s, w, <<>>)
sendInit(s, w) == MapSet(s, w, <<[type |-> MESSAGE_TYPES.INIT]>>)

(* spawnWorkers(workerCount, workerScript, poolName, memoryLimit) *)
RECURSIVE spawnLoop(_, _, _, _, _)
spawnLoop(m, n, workerScript, poolName, memoryLimit) ==
  IF n = 0 THEN m
  ELSE LET w == m.nextPid
           h == [poolName |-> poolName, memoryLimit |-> memoryLimit,
                 workerScript |-> workerScript, runningTasks |-> 0]
           m1 == [m EXCEPT
                    !.nextPid = w + 1,
                    !.handles = MapSet(m.handles, w, h),
                    !.sent = sendInit(m.sent, w),
                    !.workerSet = SetAdd(m.workerSet, w),
                    !.workerPools = MapSet(m.workerPools, poolName,
                                           SetAdd(m.workerPools[poolName], w))]
       IN spawnLoop(m1, n - 1, workerScript, poolName, memoryLimit)

spawnWorkers_lastWins(m, workerCount, workerScript, poolName, memoryLimit) ==
  spawnLoop([m EXCEPT !.workerPools = MapSet(m.workerPools, poolName, <<>>)],
            workerCount, workerScript, poolName, memoryLimit)
spawnWorkers(m, workerCount, workerScript, poolName, memoryLimit) ==
  LET m0 == IF poolName \in DOMAIN m.workerPools THEN m
            ELSE [m EXCEPT !.workerPools = MapSet(m.workerPools, poolName, <<>>)]
  IN spawnLoop(m0, workerCount, workerScript, poolName, memoryLimit)

(* initWorkerPools(workerPoolConfig): config.workerCount || 1 and          *)
(* config.workerMemoryLimit || 1 replace an absent or zero field.          *)
OrElse(v, d) == IF v = 0 THEN d ELSE v

RECURSIVE initLoop(_, _)
initLoop(m, cfg) ==
  IF cfg = <<>> THEN m
  ELSE LET config == Head(cfg)
       IN IF config.workerScript = "" THEN initLoop(m, Tail(cfg))
          ELSE IF config.poolName = "" THEN initLoop(m, Tail(cfg))
          ELSE initLoop(spawnWorkers(m, OrElse(config.workerCount, InitCountFallback),
                                     config.workerScript, config.poolName,
                                     OrElse(config.workerMemoryLimit, InitMemoryFallback)),
                        Tail(cfg))

initWorkerPools(m, workerPoolConfig) ==
  IF ~workerPoolConfig.defined THEN [m EXCEPT !.ret = ReturnFalse]
  ELSE initLoop(m, workerPoolConfig.entries)

-----------------------------------------------------------------------------
(* processNextTask(): the reduce callback keeps the accumulator a unless   *)
(* b is strictly less busy.                                                *)
keepAccumulator_busier(a, b, h) == h[a].runningTasks >= h[b].runningTasks
keepAccumulator_strict(a, b, h) == h[a].runningTasks < h[b].runningTasks
keepAccumulator(a, b, h) == h[a].runningTasks <= h[b].runningTasks

RECURSIVE reduceWorkers(_, _, _)
reduceWorkers(acc, rest, h) ==
  IF rest = <<>> THEN acc
  ELSE reduceWorkers(IF keepAccumulator(acc, Head(rest), h) THEN acc ELSE Head(rest),
                     Tail(rest), h)

leastBusyWorker(workerPool, h) == reduceWorkers(Head(workerPool), Tail(workerPool), h)

candidatePool(m, task) ==
  LET key == IF task.poolName = "" THEN DefaultPool ELSE task.poolName
  IN IF key \in DOMAIN m.workerPools THEN m.workerPools[key] ELSE m.workerSet

(* leastBusyWorker.runningTasks++ and worker.runningTasks-- *)
taskSent_forgotten(h, w) == h
taskSent(h, w) == [h EXCEPT ![w].runningTasks = h[w].runningTasks + 1]
taskDone_twice(h, w) == [h EXCEPT ![w].runningTasks = h[w].runningTasks - 2]
taskDone(h, w) == [h EXCEPT ![w].runningTasks = h[w].runningTasks - 1]

(* this.taskCallbacks.set(task.id, callback) *)
recordCallback_forgotten(c, id, callback) == c
recordCallback(c, id, callback) == MapSet(c, id, callback)

(* The body of processNextTask after the shift: resolve the candidate set, *)
(* select, record the callback, send, count.                               *)
dispatch(m1, task, callback) ==
  LET workerPool == candidatePool(m1, task)
  IN IF workerPool = <<>>
     THEN [m1 EXCEPT !.threw = TRUE]   \* reduce of an empty array: TypeError
     ELSE LET w == leastBusyWorker(workerPool, m1.handles)
          IN [m1 EXCEPT
                !.taskCallbacks = recordCallback(m1.taskCallbacks, task.id, callback),
                !.sent[w] = Append(m1.sent[w], task),
                !.handles = taskSent(m1.handles, w),
                !.dispatchLog = Append(m1.dispatchLog,
                   [id |-> task.id, poolName |-> task.poolName, worker |-> w,
                    candidates |-> workerPool,
                    inPool |-> IF task.poolName \in DOMAIN m1.workerPools
                               THEN Range(m1.workerPools[task.poolName])
                               ELSE {},
                    loads |-> [x \in Range(workerPool) |->
                                 m1.handles[x].runningTasks]])]

processNextTask_newestOfTwo(m) ==
  IF Len(m.pendingTasks) < 2 THEN m
  ELSE LET n == Len(m.pendingTasks)
       IN dispatch([m EXCEPT !.pendingTasks = SubSeq(m.pendingTasks, 1, n - 1)],
                   m.pendingTasks[n].task, m.pendingTasks[n].callback)

processNextTask(m) ==
  IF m.pendingTasks = <<>> THEN m
  ELSE dispatch([m EXCEPT !.pendingTasks = Tail(m.pendingTasks)],
                Head(m.pendingTasks).task, Head(m.pendingTasks).callback)

(* addWorkerTask(task, callback, poolName) *)
addWorkerTask_noDispatch(m, task, callback, poolName) ==
  LET t == [task EXCEPT !.poolName = poolName]
  IN [m EXCEPT !.pendingTasks = Append(m.pendingTasks, [task |-> t, callback |-> callback])]

addWorkerTask(m, task, callback, poolName) ==
  LET t == [task EXCEPT !.poolName = poolName]
  IN processNextTask([m EXCEPT !.pendingTasks =
                        Append(m.pendingTasks, [task |-> t, callback |-> callback])])

-----------------------------------------------------------------------------
(* executePoolWorkerTask(task, callback, poolName): the submission gate    *)
(* the host calls (src/app.js:95); id is the fresh id it assigns.          *)
executePoolWorkerTask(m, task, callback, poolName, id) ==
  IF poolName \notin DOMAIN m.workerPools
  THEN [m EXCEPT !.ret = ReturnObject(FALSE, <<"Worker pool ", poolName, " does not exist">>)]
  ELSE LET t == [task EXCEPT !.id = id, !.type = MESSAGE_TYPES.WORK, !.poolName = poolName]
           r == processNextTask([m EXCEPT !.pendingTasks =
                   Append(m.pendingTasks, [task |-> t, callback |-> callback])])
       IN IF r.threw THEN r ELSE [r EXCEPT !.ret = ReturnObject(TRUE, <<>>)]

(* callback(message): the callback cb is invoked with the reply. *)
invoke_first(c, cb, message) ==
  MapSet(c, 1, Append(IF 1 \in DOMAIN c THEN c[1] ELSE <<>>, message))
invoke(c, cb, message) ==
  MapSet(c, cb, Append(IF cb \in DOMAIN c THEN c[cb] ELSE <<>>, message))

(* processWorkerMessage(worker, message) *)
processWorkerMessage_dropsUnknown(m, worker, message) ==
  IF /\ message.type \in {MESSAGE_TYPES.WORK_DONE, MESSAGE_TYPES.ERROR}
     /\ message.id \in DOMAIN m.taskCallbacks
  THEN LET m1 == [m EXCEPT !.handles = taskDone(m.handles, worker)]
       IN processNextTask(
            [m1 EXCEPT !.called = invoke(m1.called, m1.taskCallbacks[message.id], message),
                       !.taskCallbacks = MapDelete(m1.taskCallbacks, message.id)])
  ELSE m
processWorkerMessage_keepsEntry(m, worker, message) ==
  IF message.type \in {MESSAGE_TYPES.WORK_DONE, MESSAGE_TYPES.ERROR}
  THEN LET m1 == [m EXCEPT !.handles = taskDone(m.handles, worker)]
       IN processNextTask(
            IF message.id \in DOMAIN m1.taskCallbacks
            THEN [m1 EXCEPT !.called = invoke(m1.called, m1.taskCallbacks[message.id],
                                               message)]
            ELSE m1)
  ELSE m
processWorkerMessage(m, worker, message) ==
  IF message.type = MESSAGE_TYPES.INIT_DONE THEN m
  ELSE IF message.type \in {MESSAGE_TYPES.WORK_DONE, MESSAGE_TYPES.ERROR}
  THEN LET m1 == [m EXCEPT !.handles = taskDone(m.handles, worker)]
           m2 == IF message.id \in DOMAIN m1.taskCallbacks
                 THEN [m1 EXCEPT
                         !.called = invoke(m1.called, m1.taskCallbacks[message.id],
                                           message),
                         !.taskCallbacks = MapDelete(m1.taskCallbacks, message.id)]
                 ELSE m1
       IN processNextTask(m2)
  ELSE m

(* processWorkerMessage(worker, message) for a WORK_DONE or ERROR message *)
(* when the callback stored under message.id, in its body, calls           *)
(* addWorkerTask(task, callback, poolName): the counter is decremented,    *)
(* the callback runs (and submits), the entry of message.id is deleted,    *)
(* processNextTask is called.  An exception of the submission leaves the   *)
(* callback and the handler.                                               *)
replyWithResubmission_decrementsLast(m, worker, message, task, callback, poolName) ==
  LET m2 == IF message.id \in DOMAIN m.taskCallbacks
            THEN LET mc == [m EXCEPT !.called = invoke(m.called,
                                                  m.taskCallbacks[message.id], message)]
                     ma == addWorkerTask(mc, task, callback, poolName)
                 IN [ma EXCEPT !.taskCallbacks = MapDelete(ma.taskCallbacks, message.id)]
            ELSE m
  IN processNextTask([m2 EXCEPT !.handles = taskDone(m2.handles, worker)])
replyWithResubmission(m, worker, message, task, callback, poolName) ==
  LET m1 == [m EXCEPT !.handles = taskDone(m.handles, worker)]
  IN IF message.id \in DOMAIN m1.taskCallbacks
     THEN LET mc == [m1 EXCEPT !.called = invoke(m1.called,
                                             m1.taskCallbacks[message.id], message)]
              ma == addWorkerTask(mc, task, callback, poolName)
          IN IF ma.threw THEN ma
             ELSE processNextTask(
                    [ma EXCEPT !.taskCallbacks = MapDelete(ma.taskCallbacks, message.id)])
     ELSE processNextTask(m1)

(* manageWorkerExit(exitedWorker, code, signal, poolName) *)
manageWorkerExit_keeps(m, exitedWorker, code, signal, poolName) == m
manageWorkerExit(m, exitedWorker, code, signal, poolName) ==
  LET m1 == [m EXCEPT !.workerSet = SetDelete(m.workerSet, exitedWorker)]
  IN IF poolName \notin DOMAIN m1.workerPools
     THEN [m1 EXCEPT !.threw = TRUE]   \* workerPools.get(poolName) is undefined
     ELSE LET m2 == [m1 EXCEPT !.workerPools[poolName] =
                                  SetDelete(m1.workerPools[poolName], exitedWorker)]
          IN IF code # "0"
             THEN spawnWorkers(m2, 1, poolName, DefaultPool, DefaultMemoryLimit)
             ELSE m2

(* The "exit" listener of a worker: manageWorkerExit.bind(this, worker,    *)
(* poolName), called by the runtime with (code, signal).                   *)
exitListener(m, worker, code, signal) ==
  manageWorkerExit(m, worker, m.handles[worker].poolName, code, signal)

(* terminateWorkers(poolName) *)
RECURSIVE sendTerminate(_, _)
sendTerminate(m, ws) ==
  IF ws = <<>> THEN m
  ELSE sendTerminate([m EXCEPT !.sent[Head(ws)] =
                        Append(m.sent[Head(ws)], [type |-> MESSAGE_TYPES.TERMINATE])],
                     Tail(ws))

terminateWorkers_everyWorker(m, poolName) == sendTerminate(m, m.workerSet)
terminateWorkers(m, poolName) ==
  IF poolName = NULL THEN sendTerminate(m, m.workerSet)
  ELSE IF poolName \in DOMAIN m.workerPools
  THEN sendTerminate(m, m.workerPools[poolName])
  ELSE [m EXCEPT !.threw = TRUE]       \* undefined.forEach

(* executeOneShotWorkerTask(workerScript, task, callback, memoryLimit):    *)
(* a fresh worker that is in workerSet and in no pool, is not sent INIT,   *)
(* and is sent the task as WORK with a fresh id; memoryLimit defaults to   *)
(* 4096 when the caller passes none.                                       *)
executeOneShotWorkerTask(m, workerScript, task, callback, memoryLimit, id) ==
  LET w == m.nextPid
      t == [task EXCEPT !.id = id, !.type = MESSAGE_TYPES.WORK]
      h == [poolName |-> OneShotPool,
            memoryLimit |-> IF memoryLimit = 0 THEN DefaultMemoryLimit ELSE memoryLimit,
            workerScript |-> workerScript, runningTasks |-> 0]
  IN [m EXCEPT
        !.nextPid = w + 1,
        !.workerSet = SetAdd(m.workerSet, w),
        !.taskCallbacks = recordCallback(m.taskCallbacks, id, callback),
        !.sent = MapSet(m.sent, w, <<t>>),
        !.handles = taskSent(MapSet(m.handles, w, h), w)]

(* The "message" listener of a one-shot worker: the reply is handled as a  *)
(* pool worker's reply is, then TERMINATE is sent to the worker.           *)
oneShotMessage(m, worker, message) ==
  LET r == processWorkerMessage(m, worker, message)
  IN IF r.threw THEN r ELSE sendTerminate(r, <<worker>>)

(* The "exit" listener of a one-shot worker: the handle leaves workerSet   *)
(* and no replacement is spawned.                                          *)
oneShotExit(m, exitedWorker, code, signal) ==
  [m EXCEPT !.workerSet = SetDelete(m.workerSet, exitedWorker)]

(* getWorkerStatus(poolName): one entry {poolName, pid, runningTasks,      *)
(* stats} for each worker of the target set whose pidusage probe succeeds  *)
(* (running: the workers whose probe succeeds); the entries of the failed  *)
(* probes are null and are filtered out.                                   *)
statsEntry(m, w) ==
  [poolName |-> m.handles[w].poolName, pid |-> w,
   runningTasks |-> m.handles[w].runningTasks]

statsOf_unfiltered(m, targetWorkers, running) ==
  [i \in DOMAIN targetWorkers |-> statsEntry(m, targetWorkers[i])]

statsOf(m, targetWorkers, running) ==
  LET probed == SelectSeq(targetWorkers, LAMBDA w : w \in running)
  IN [i \in DOMAIN probed |-> statsEntry(m, probed[i])]

getWorkerStatus(m, poolName, running) ==
  IF poolName = NULL
  THEN [m EXCEPT !.ret = [kind |-> "object", ok |-> TRUE,
                          message |-> statsOf(m, m.workerSet, running)]]
  ELSE IF poolName \in DOMAIN m.workerPools
  THEN [m EXCEPT !.ret = [kind |-> "object", ok |-> TRUE,
                          message |-> statsOf(m, m.workerPools[poolName], running)]]
  ELSE [m EXCEPT !.threw = TRUE]       \* [...undefined]

-----------------------------------------------------------------------------
(* The worker script (src/workers/exampleWorker_CPULoad.js; the memory     *)
(* worker has the same handler).  task.id of a message without id is       *)
(* undefined (0).                                                          *)
idOf(task) == IF "id" \in DOMAIN task THEN task.id ELSE 0

(* reportError(task, err) *)
reportError(task) ==
  [type |-> MESSAGE_TYPES.ERROR, id |-> idOf(task), ok |-> FALSE, data |-> "err.message"]

(* processTask(task): the messages it sends, whether it ends the process,  *)
(* and whether it throws; fails: work(task) rejects.                       *)
processTask(task, fails) ==
  LET response == [type |-> "", id |-> idOf(task), ok |-> TRUE, data |-> "{}"]
      quiet == [sends |-> <<>>, exit |-> FALSE, threw |-> FALSE]
  IN IF task.type = MESSAGE_TYPES.INIT
     THEN [quiet EXCEPT !.sends = <<[response EXCEPT !.data = "pid",
                                       !.type = MESSAGE_TYPES.INIT_DONE]>>]
     ELSE IF task.type = MESSAGE_TYPES.WORK
     THEN IF fails THEN [quiet EXCEPT !.threw = TRUE]
          ELSE [quiet EXCEPT !.sends = <<[response EXCEPT !.data = "work is done!",
                                            !.type = MESSAGE_TYPES.WORK_DONE]>>]
     ELSE IF task.type = MESSAGE_TYPES.TERMINATE
     THEN [quiet EXCEPT !.exit = TRUE]
     ELSE quiet

(* process.on("message", async task => { try ... catch ... }) *)
onMessage_bothReplies(task, fails) ==
  LET r == processTask(task, FALSE)
  IN [r EXCEPT !.sends = IF task.type = MESSAGE_TYPES.WORK
                         THEN Append(r.sends, reportError(task)) ELSE r.sends]
onMessage(task, fails) ==
  LET r == processTask(task, fails)
  IN IF r.threw
     THEN [r EXCEPT !.sends = Append(r.sends, reportError(task)), !.threw = FALSE]
     ELSE r

-----------------------------------------------------------------------------
(* processTermination() of the host: terminateWorkers(); process.exit(0).  *)
processTermination(m) == terminateWorkers([m EXCEPT !.threw = FALSE], NULL)

(* An exception that leaves an event listener is uncaught: the host        *)
(* process ends, and its "exit" hook runs processTermination.              *)
afterListener(r) == IF r.threw THEN processTermination(r) ELSE r

-----------------------------------------------------------------------------
(* The state after a handler: the manager's fields from the record r.  A   *)
(* WORK message sent to a running child becomes work of that child, less   *)
(* the ids in done (the replies this handler consumed).                    *)
NewWork(r, w) ==
  LET from == IF w \in DOMAIN sent THEN Len(sent[w]) + 1 ELSE 1
  IN {r.sent[w][i].id : i \in {j \in from..Len(r.sent[w]) :
                                 r.sent[w][j].type = MESSAGE_TYPES.WORK}}

Grow(f, r, d) == [w \in DOMAIN r.handles |-> IF w \in DOMAIN f THEN f[w] ELSE d]

Commit(r, done) ==
  /\ workerSet' = r.workerSet
  /\ workerPools' = r.workerPools
  /\ pendingTasks' = r.pendingTasks
  /\ taskCallbacks' = r.taskCallbacks
  /\ handles' = r.handles
  /\ sent' = r.sent
  /\ nextPid' = r.nextPid
  /\ dispatchLog' = r.dispatchLog
  /\ called' = r.called
  /\ working' = [w \in DOMAIN r.handles |->
                   IF w \in DOMAIN proc /\ proc[w] = "exited" THEN {}
                   ELSE ((IF w \in DOMAIN working THEN working[w] ELSE {})
                         \cup NewWork(r, w)) \ done]

-----------------------------------------------------------------------------
Init ==
  /\ workerSet = <<>>
  /\ workerPools = <<>>
  /\ pendingTasks = <<>>
  /\ taskCallbacks = <<>>
  /\ handles = <<>>
  /\ sent = <<>>
  /\ nextPid = 1
  /\ nextId = 1
  /\ alive = TRUE
  /\ inited = FALSE
  /\ terminateCalls = 0
  /\ proc = <<>>
  /\ initDone = <<>>
  /\ working = <<>>
  /\ subs = <<>>
  /\ dispatchLog = <<>>
  /\ called = <<>>
  /\ exits = <<>>
  /\ loaded = <<>>
  /\ replies = <<>>
  /\ lastRet = [op |-> "constructor", poolName |-> NULL, given |-> 0, probed |-> {}, threw |-> FALSE, ret |-> Undefined]

(* The pool configurations the host may load (config.get('workerPool')):   *)
(* no configuration, an empty list, one pool of MaxWorkers workers, a      *)
(* descriptor without the optional fields, two pools, a descriptor without *)
(* poolName or without workerScript before a valid one, and two            *)
(* descriptors with the same poolName.                                     *)
Descriptor(poolName, workerScript, workerCount, workerMemoryLimit) ==
  [poolName |-> poolName, workerScript |-> workerScript,
   workerCount |-> workerCount, workerMemoryLimit |-> workerMemoryLimit]

ConfigLists ==
  { <<>>,
    << Descriptor("CPU", "cpu.js", MaxWorkers, 2048) >>,
    << Descriptor("CPU", "cpu.js", 0, 0) >>,
    << Descriptor("CPU", "cpu.js", MaxWorkers - 1, 2048), Descriptor("MEM", "mem.js", 1, 0) >>,
    << Descriptor("", "cpu.js", 1, 2048), Descriptor("MEM", "mem.js", 1, 2048) >>,
    << Descriptor("CPU", "", 1, 2048), Descriptor("CPU", "cpu.js", 1, 0) >>,
    << Descriptor("CPU", "cpu.js", 1, 2048), Descriptor("CPU", "mem.js", 1, 0) >> }

Configs == {[defined |-> TRUE, entries |-> e] : e \in ConfigLists}
           \cup {[defined |-> FALSE, entries |-> <<>>]}

(* The host calls initWorkerPools once, at start-up (initializeServer). *)
InitWorkerPools(cfg) ==
  /\ alive /\ ~inited
  /\ LET r == initWorkerPools(Mgr, cfg)
     IN /\ r.nextPid - 1 <= MaxWorkers
        /\ Commit(r, {})
        /\ proc' = Grow(proc, r, "running")
        /\ initDone' = Grow(initDone, r, FALSE)
        /\ lastRet' = [op |-> "initWorkerPools", poolName |-> NULL, given |-> 0, probed |-> {}, threw |-> r.threw, ret |-> r.ret]
  /\ inited' = TRUE
  /\ loaded' = cfg.entries
  /\ UNCHANGED <<nextId, alive, subs, terminateCalls, exits, replies>>

(* A caller submits a task with addWorkerTask; the caller supplies the id  *)
(* (uuidv4()) and the type "work".  The host serves requests after it has  *)
(* called initWorkerPools (initializeServer).                              *)
AddWorkerTask(poolName) ==
  /\ alive /\ inited
  /\ Len(subs) < MaxTasks
  /\ LET cb == Len(subs) + 1
         task == [id |-> nextId, type |-> MESSAGE_TYPES.WORK, poolName |-> ""]
         r == addWorkerTask(Mgr, task, cb, poolName)
     IN /\ Commit(r, {})
        /\ subs' = Append(subs, [cb |-> cb, poolName |-> poolName,
                                 id |-> nextId,
                                 outcome |-> IF r.threw THEN "threw" ELSE "accepted"])
        /\ lastRet' = [op |-> "addWorkerTask", poolName |-> poolName, given |-> task.id, probed |-> {},
                       threw |-> r.threw, ret |-> r.ret]
  /\ nextId' = nextId + 1
  /\ UNCHANGED <<alive, inited, proc, initDone, terminateCalls, exits, loaded, replies>>

(* A caller submits a task with executePoolWorkerTask({data}, cb, pool).   *)
ExecutePoolWorkerTask(poolName) ==
  /\ alive /\ inited
  /\ Len(subs) < MaxTasks
  /\ LET cb == Len(subs) + 1
         task == [id |-> 0, type |-> "", poolName |-> ""]
         r == executePoolWorkerTask(Mgr, task, cb, poolName, nextId)
         rejected == ~r.threw /\ ~r.ret.ok
     IN /\ Commit(r, {})
        /\ subs' = Append(subs, [cb |-> cb, poolName |-> poolName,
                                 id |-> IF rejected THEN 0 ELSE nextId,
                                 outcome |-> IF r.threw THEN "threw"
                                             ELSE IF rejected THEN "rejected"
                                             ELSE "accepted"])
        /\ lastRet' = [op |-> "executePoolWorkerTask", poolName |-> poolName,
                       given |-> task.id, probed |-> {}, threw |-> r.threw, ret |-> r.ret]
        /\ nextId' = IF rejected THEN nextId ELSE nextId + 1
  /\ UNCHANGED <<alive, inited, proc, initDone, terminateCalls, exits, loaded, replies>>

(* A caller submits a one-shot task with executeOneShotWorkerTask(script,  *)
(* {data}, cb, memoryLimit); memoryLimit 0 stands for none given.          *)
ExecuteOneShotWorkerTask(memoryLimit) ==
  /\ alive /\ inited
  /\ Len(subs) < MaxTasks
  /\ nextPid <= MaxWorkers
  /\ LET cb == Len(subs) + 1
         task == [id |-> 0, type |-> "", poolName |-> ""]
         r == executeOneShotWorkerTask(Mgr, "cpu.js", task, cb, memoryLimit, nextId)
     IN /\ Commit(r, {})
        /\ proc' = Grow(proc, r, "running")
        /\ initDone' = Grow(initDone, r, TRUE)
        /\ subs' = Append(subs, [cb |-> cb, poolName |-> OneShotPool, id |-> nextId,
                                 outcome |-> "accepted"])
        /\ lastRet' = [op |-> "executeOneShotWorkerTask", poolName |-> OneShotPool,
                       given |-> task.id, probed |-> {},
                       threw |-> r.threw, ret |-> r.ret]
  /\ nextId' = nextId + 1
  /\ UNCHANGED <<alive, inited, terminateCalls, exits, loaded, replies>>

(* The child answers INIT: the manager's "message" listener runs. *)
ChildInitDone(w) ==
  /\ alive
  /\ w \in DOMAIN proc /\ proc[w] = "running" /\ ~initDone[w]
  /\ \E i \in DOMAIN sent[w] : sent[w][i].type = MESSAGE_TYPES.INIT
  /\ LET c == onMessage(sent[w][CHOOSE i \in DOMAIN sent[w] :
                                   sent[w][i].type = MESSAGE_TYPES.INIT], FALSE)
         r == afterListener(processWorkerMessage(Mgr, w, c.sends[1]))
     IN /\ Commit(r, {})
        /\ alive' = ~r.threw
  /\ initDone' = [initDone EXCEPT ![w] = TRUE]
  /\ UNCHANGED <<nextId, inited, proc, subs, terminateCalls, exits, loaded, replies, lastRet>>

(* The child answers a WORK message it holds with WORK_DONE (ok) or ERROR; *)
(* the manager's "message" listener runs.  The child's handler is async,   *)
(* so it may answer its WORK messages in any order.                        *)
ChildReply(w, id, type) ==
  /\ alive
  /\ w \in DOMAIN proc /\ proc[w] = "running" /\ initDone[w]
  /\ id \in working[w]
  /\ LET task == sent[w][CHOOSE i \in DOMAIN sent[w] :
                                 sent[w][i].type = MESSAGE_TYPES.WORK /\ sent[w][i].id = id]
         c == onMessage(task, type = MESSAGE_TYPES.ERROR)
         message == c.sends[1]
         r0 == IF handles[w].poolName = OneShotPool
               THEN oneShotMessage(Mgr, w, message)
               ELSE processWorkerMessage(Mgr, w, message)
         r == afterListener(r0)
     IN /\ Commit(r, {id})
        /\ alive' = ~r0.threw
  /\ UNCHANGED <<nextId, inited, proc, initDone, subs, terminateCalls, exits, loaded, replies, lastRet>>

(* The child answers a WORK message, and the callback of that task, while  *)
(* it is invoked, submits a new task to poolName with addWorkerTask.       *)
ResubmittingReply(w, id, type, poolName) ==
  /\ alive
  /\ w \in DOMAIN proc /\ proc[w] = "running" /\ initDone[w]
  /\ handles[w].poolName # OneShotPool
  /\ id \in working[w]
  /\ Len(subs) < MaxTasks
  /\ LET c == onMessage(sent[w][CHOOSE i \in DOMAIN sent[w] :
                                   sent[w][i].type = MESSAGE_TYPES.WORK /\ sent[w][i].id = id],
                        type = MESSAGE_TYPES.ERROR)
         cb == Len(subs) + 1
         task == [id |-> nextId, type |-> MESSAGE_TYPES.WORK, poolName |-> ""]
         r0 == replyWithResubmission(Mgr, w, c.sends[1], task, cb, poolName)
         r == afterListener(r0)
     IN /\ Commit(r, {id})
        /\ alive' = ~r0.threw
        /\ subs' = Append(subs, [cb |-> cb, poolName |-> poolName, id |-> nextId,
                                 outcome |-> IF r0.threw THEN "threw" ELSE "accepted"])
        /\ lastRet' = [op |-> "addWorkerTask in callback", poolName |-> poolName,
                       given |-> task.id, probed |-> {}, threw |-> r0.threw, ret |-> r0.ret]
  /\ nextId' = nextId + 1
  /\ UNCHANGED <<inited, proc, initDone, terminateCalls, exits, loaded, replies>>

(* A child process ends: with code 0 after it received TERMINATE, with     *)
(* code 1 when it crashes, or killed by a signal (code null).  While the   *)
(* host runs, the worker's "exit" listener runs.                           *)
ExitArgs(w) ==
  {<<"1", NULL>>} \cup {<<NULL, sig>> : sig \in Signals}
  \cup (IF \E i \in DOMAIN sent[w] : sent[w][i].type = MESSAGE_TYPES.TERMINATE
        THEN {<<"0", NULL>>} ELSE {})

WorkerExit(w, code, signal) ==
  /\ alive
  /\ w \in DOMAIN proc /\ proc[w] = "running"
  /\ <<code, signal>> \in ExitArgs(w)
  /\ proc' = [proc EXCEPT ![w] = "exited"]
  /\ exits' = MapSet(exits, w, [code |-> code, signal |-> signal,
                                at |-> Len(dispatchLog)])
  /\ LET r0 == IF handles[w].poolName = OneShotPool
               THEN oneShotExit(Mgr, w, code, signal)
               ELSE exitListener(Mgr, w, code, signal)
         r == afterListener(r0)
     IN /\ r.nextPid - 1 <= MaxWorkers
        /\ Commit(r, working[w])
        /\ alive' = ~r0.threw
  /\ UNCHANGED <<nextId, inited, initDone, subs, terminateCalls, loaded, replies, lastRet>>

(* A caller calls terminateWorkers(poolName). *)
TerminateWorkers(poolName) ==
  /\ alive
  /\ terminateCalls < MaxTerminateCalls
  /\ LET r == terminateWorkers(Mgr, poolName)
     IN /\ Commit(r, {})
        /\ lastRet' = [op |-> "terminateWorkers", poolName |-> poolName, given |-> 0, probed |-> {}, threw |-> r.threw, ret |-> r.ret]
  /\ terminateCalls' = terminateCalls + 1
  /\ UNCHANGED <<nextId, alive, inited, proc, initDone, subs, exits, loaded, replies>>

(* A caller calls getWorkerStatus(poolName); probed: the workers whose     *)
(* resource probe succeeds (a probe of a live process may fail).           *)
GetWorkerStatus(poolName, probed) ==
  /\ alive /\ inited
  /\ LET r == getWorkerStatus(Mgr, poolName, probed)
     IN /\ Commit(r, {})
        /\ lastRet' = [op |-> "getWorkerStatus", poolName |-> poolName, given |-> 0,
                       probed |-> probed, threw |-> r.threw, ret |-> r.ret]
  /\ UNCHANGED <<nextId, alive, inited, proc, initDone, subs, terminateCalls, exits, loaded, replies>>

(* A worker script is the user's: it may send a WORK_DONE or ERROR message *)
(* whose id has no callbacks entry (no id, an unknown id, or the id of a   *)
(* task already answered).  The manager's "message" listener runs.         *)
MaxStrayReplies == 1
StrayIds == 0..MaxTasks
StrayCount ==
  Cardinality({p \in (DOMAIN replies) \X (1..MaxStrayReplies) : p[2] <= Len(replies[p[1]])})

StrayReply(w, id, type) ==
  /\ alive
  /\ w \in DOMAIN proc /\ proc[w] = "running"
  /\ handles[w].poolName # OneShotPool
  /\ id \notin DOMAIN taskCallbacks
  /\ StrayCount < MaxStrayReplies
  /\ LET message == [type |-> type, id |-> id, ok |-> (type = MESSAGE_TYPES.WORK_DONE),
                     data |-> "{}"]
         r0 == processWorkerMessage(Mgr, w, message)
         r == afterListener(r0)
     IN /\ Commit(r, {})
        /\ alive' = ~r0.threw
        /\ replies' = MapSet(replies, w,
                             Append(IF w \in DOMAIN replies THEN replies[w] ELSE <<>>,
                                    message))
  /\ UNCHANGED <<nextId, inited, proc, initDone, subs, terminateCalls, exits, loaded, lastRet>>

(* The host receives SIGINT or SIGTERM: processTermination. *)
HostSignal ==
  /\ alive
  /\ LET r == processTermination(Mgr)
     IN /\ Commit(r, {})
  /\ alive' = FALSE
  /\ UNCHANGED <<nextId, inited, proc, initDone, subs, terminateCalls, exits, loaded, replies, lastRet>>

(* After the host process has ended, its children end too: they received  *)
(* TERMINATE from processTermination, and their channel is closed.         *)
OrphansExit ==
  /\ ~alive
  /\ \E w \in DOMAIN proc : proc[w] = "running"
  /\ proc' = [w \in DOMAIN proc |-> "exited"]
  /\ working' = [w \in DOMAIN working |-> {}]
  /\ UNCHANGED <<workerSet, workerPools, pendingTasks, taskCallbacks, handles, sent,
                 nextPid, nextId, alive, inited, terminateCalls, initDone, subs,
                 dispatchLog, called, exits, loaded, replies, lastRet>>

(* The worker script alone, driven over its channel by a parent that sends *)
(* it any message: ChildInit forks MaxWorkers children; the parent sends   *)
(* INIT, WORK, TERMINATE or a message of an unknown type; the workload of  *)
(* a WORK message ends later, resolved or rejected.                        *)
UnknownType == "bogus"
MaxMessages == MaxTasks + 2
ChildMessages(id) ==
  {[type |-> t, id |-> id, poolName |-> ""] :
     t \in {MESSAGE_TYPES.INIT, MESSAGE_TYPES.WORK, MESSAGE_TYPES.TERMINATE, UnknownType}}

ChildInit ==
  /\ workerSet = <<>> /\ workerPools = <<>> /\ pendingTasks = <<>>
  /\ taskCallbacks = <<>> /\ handles = <<>>
  /\ nextPid = MaxWorkers + 1 /\ nextId = 1
  /\ alive = TRUE /\ inited = FALSE /\ terminateCalls = 0
  /\ subs = <<>> /\ dispatchLog = <<>> /\ called = <<>> /\ exits = <<>> /\ loaded = <<>>
  /\ lastRet = [op |-> "constructor", poolName |-> NULL, given |-> 0, probed |-> {},
                threw |-> FALSE, ret |-> Undefined]
  /\ proc = [w \in 1..MaxWorkers |-> "running"]
  /\ sent = [w \in 1..MaxWorkers |-> <<>>]
  /\ replies = [w \in 1..MaxWorkers |-> <<>>]
  /\ working = [w \in 1..MaxWorkers |-> {}]
  /\ initDone = [w \in 1..MaxWorkers |-> FALSE]

ChildUnchanged ==
  UNCHANGED <<workerSet, workerPools, pendingTasks, taskCallbacks, handles, nextPid,
              alive, inited, terminateCalls, subs, dispatchLog, called, exits, loaded,
              lastRet>>

(* The parent sends task to child w; the child's listener runs up to its   *)
(* first await: a WORK message starts the workload, any other message is   *)
(* handled to the end.                                                     *)
ParentSends(w, task) ==
  /\ w \in DOMAIN proc /\ proc[w] = "running"
  /\ nextId <= MaxMessages
  /\ task \in ChildMessages(nextId)
  /\ sent' = [sent EXCEPT ![w] = Append(sent[w], task)]
  /\ nextId' = nextId + 1
  /\ IF task.type = MESSAGE_TYPES.WORK
     THEN /\ working' = [working EXCEPT ![w] = working[w] \cup {task.id}]
          /\ UNCHANGED <<replies, proc, initDone>>
     ELSE LET c == onMessage(task, FALSE)
          IN /\ replies' = [replies EXCEPT ![w] = replies[w] \o c.sends]
             /\ proc' = [proc EXCEPT ![w] = IF c.exit THEN "exited" ELSE "running"]
             /\ initDone' = [initDone EXCEPT ![w] = initDone[w] \/ task.type = MESSAGE_TYPES.INIT]
             /\ UNCHANGED working
  /\ ChildUnchanged

(* The workload of the WORK message id ends in child w: work(task)         *)
(* resolves, or rejects (fails), and the listener runs to its end.         *)
WorkloadEnds(w, id, fails) ==
  /\ w \in DOMAIN proc /\ proc[w] = "running"
  /\ id \in working[w]
  /\ LET task == sent[w][CHOOSE i \in DOMAIN sent[w] :
                            sent[w][i].type = MESSAGE_TYPES.WORK /\ sent[w][i].id = id]
         c == onMessage(task, fails)
     IN replies' = [replies EXCEPT ![w] = replies[w] \o c.sends]
  /\ working' = [working EXCEPT ![w] = working[w] \ {id}]
  /\ UNCHANGED <<sent, nextId, proc, initDone>>
  /\ ChildUnchanged

Workers == 1..MaxWorkers
OneShotMemoryLimits == {0, 2048}
TaskIds == 1..MaxTasks

Next ==
  \/ \E cfg \in Configs : InitWorkerPools(cfg)
  \/ \E p \in PoolNames \cup UnknownPools : AddWorkerTask(p)
  \/ \E p \in PoolNames \cup UnknownPools : ExecutePoolWorkerTask(p)
  \/ \E w \in Workers : ChildInitDone(w)
  \/ \E w \in Workers, id \in TaskIds :
       \E type \in {MESSAGE_TYPES.WORK_DONE, MESSAGE_TYPES.ERROR} : ChildReply(w, id, type)
  \/ \E w \in Workers, code \in {"0", "1", NULL}, signal \in Signals \cup {NULL} :
       WorkerExit(w, code, signal)
  \/ \E p \in PoolNames \cup UnknownPools \cup {NULL} : TerminateWorkers(p)
  \/ HostSignal
  \/ OrphansExit

Spec == Init /\ [][Next]_vars

(* The program with one-shot submissions: the pool submissions are those   *)
(* of addWorkerTask, and terminateWorkers is called by the host's          *)
(* processTermination only.                                                *)
NextOneShot ==
  \/ \E cfg \in Configs : InitWorkerPools(cfg)
  \/ \E p \in PoolNames \cup UnknownPools : AddWorkerTask(p)
  \/ \E memoryLimit \in OneShotMemoryLimits : ExecuteOneShotWorkerTask(memoryLimit)
  \/ \E w \in Workers : ChildInitDone(w)
  \/ \E w \in Workers, id \in TaskIds :
       \E type \in {MESSAGE_TYPES.WORK_DONE, MESSAGE_TYPES.ERROR} : ChildReply(w, id, type)
  \/ \E w \in Workers, code \in {"0", "1", NULL}, signal \in Signals \cup {NULL} :
       WorkerExit(w, code, signal)
  \/ HostSignal
  \/ OrphansExit

SpecOneShot == Init /\ [][NextOneShot]_vars

(* The program with calls of getWorkerStatus: the pool submissions are     *)
(* those of addWorkerTask.                                                 *)
NextStats ==
  \/ \E cfg \in Configs : InitWorkerPools(cfg)
  \/ \E p \in PoolNames \cup UnknownPools : AddWorkerTask(p)
  \/ \E p \in PoolNames \cup UnknownPools \cup {NULL} :
       \E probed \in SUBSET {w \in DOMAIN proc : proc[w] = "running"} :
         GetWorkerStatus(p, probed)
  \/ \E w \in Workers : ChildInitDone(w)
  \/ \E w \in Workers, id \in TaskIds :
       \E type \in {MESSAGE_TYPES.WORK_DONE, MESSAGE_TYPES.ERROR} : ChildReply(w, id, type)
  \/ \E w \in Workers, code \in {"0", "1", NULL}, signal \in Signals \cup {NULL} :
       WorkerExit(w, code, signal)
  \/ HostSignal
  \/ OrphansExit

SpecStats == Init /\ [][NextStats]_vars

(* The program with worker scripts that send stray replies: the pool      *)
(* submissions are those of addWorkerTask.                                 *)
NextStray ==
  \/ \E cfg \in Configs : InitWorkerPools(cfg)
  \/ \E p \in PoolNames \cup UnknownPools : AddWorkerTask(p)
  \/ \E w \in Workers : ChildInitDone(w)
  \/ \E w \in Workers, id \in TaskIds :
       \E type \in {MESSAGE_TYPES.WORK_DONE, MESSAGE_TYPES.ERROR} : ChildReply(w, id, type)
  \/ \E w \in Workers, id \in StrayIds :
       \E type \in {MESSAGE_TYPES.WORK_DONE, MESSAGE_TYPES.ERROR} : StrayReply(w, id, type)
  \/ \E w \in Workers, code \in {"0", "1", NULL}, signal \in Signals \cup {NULL} :
       WorkerExit(w, code, signal)
  \/ HostSignal
  \/ OrphansExit

SpecStray == Init /\ [][NextStray]_vars

(* The program with callbacks that submit a task while they are invoked:   *)
(* the submissions are those of addWorkerTask.                             *)
NextReentrant ==
  \/ \E cfg \in Configs : InitWorkerPools(cfg)
  \/ \E p \in PoolNames \cup UnknownPools : AddWorkerTask(p)
  \/ \E w \in Workers : ChildInitDone(w)
  \/ \E w \in Workers, id \in TaskIds :
       \E type \in {MESSAGE_TYPES.WORK_DONE, MESSAGE_TYPES.ERROR} : ChildReply(w, id, type)
  \/ \E w \in Workers, id \in TaskIds, p \in PoolNames \cup UnknownPools :
       \E type \in {MESSAGE_TYPES.WORK_DONE, MESSAGE_TYPES.ERROR} :
         ResubmittingReply(w, id, type, p)
  \/ \E w \in Workers, code \in {"0", "1", NULL}, signal \in Signals \cup {NULL} :
       WorkerExit(w, code, signal)
  \/ HostSignal
  \/ OrphansExit

SpecReentrant == Init /\ [][NextReentrant]_vars

(* The worker script under the protocol driver. *)
NextChild ==
  \/ \E w \in Workers : \E task \in ChildMessages(nextId) : ParentSends(w, task)
  \/ \E w \in Workers, id \in 1..MaxMessages, fails \in BOOLEAN : WorkloadEnds(w, id, fails)

SpecChild == ChildInit /\ [][NextChild]_vars

(* The same program without calls of terminateWorkers by callers (the host *)
(* of src/app.js calls it in processTermination only).                     *)
NextHosted ==
  \/ \E cfg \in Configs : InitWorkerPools(cfg)
  \/ \E p \in PoolNames \cup UnknownPools : AddWorkerTask(p)
  \/ \E p \in PoolNames \cup UnknownPools : ExecutePoolWorkerTask(p)
  \/ \E w \in Workers : ChildInitDone(w)
  \/ \E w \in Workers, id \in TaskIds :
       \E type \in {MESSAGE_TYPES.WORK_DONE, MESSAGE_TYPES.ERROR} : ChildReply(w, id, type)
  \/ \E w \in Workers, code \in {"0", "1", NULL}, signal \in Signals \cup {NULL} :
       WorkerExit(w, code, signal)
  \/ HostSignal
  \/ OrphansExit

(* A running child answers every message it received: INIT at once, WORK   *)
(* when the workload ends; the children of a host that has ended end.      *)
FairSpec ==
  /\ Init /\ [][NextHosted]_vars
  /\ WF_vars(OrphansExit)
  /\ \A w \in Workers : WF_vars(ChildInitDone(w))
  /\ \A w \in Workers :
       WF_vars(\E id \in TaskIds, type \in {MESSAGE_TYPES.WORK_DONE, MESSAGE_TYPES.ERROR} :
                 ChildReply(w, id, type))

-----------------------------------------------------------------------------
(* Definitions used by the properties *)
Min(a, b) == IF a <= b THEN a ELSE b
Dispatches == {dispatchLog[i] : i \in DOMAIN dispatchLog}
Accepted == {i \in DOMAIN subs : subs[i].outcome = "accepted"}
Notified(i) == i \in DOMAIN called
PendingIds == {pendingTasks[i].task.id : i \in DOMAIN pendingTasks}
DispatchIndex(id) == CHOOSE i \in DOMAIN dispatchLog : dispatchLog[i].id = id
Dispatched(id) == \E i \in DOMAIN dispatchLog : dispatchLog[i].id = id
MinLoad(d) == CHOOSE n \in {d.loads[x] : x \in Range(d.candidates)} :
                \A x \in Range(d.candidates) : n <= d.loads[x]

(* C1: Least-loaded selection.  Whenever processNextTask sent a task, the   *)
(* runningTasks of the worker it chose, read at the selection instant, was  *)
(* less than or equal to the runningTasks of every worker of the candidate  *)
(* set.                                                                    *)
C1_LeastLoadedSelection ==
  \A d \in Dispatches : \A x \in Range(d.candidates) : d.loads[d.worker] <= d.loads[x]

C1_Witness ==
  \E d \in Dispatches : \E x \in Range(d.candidates) : d.loads[d.worker] < d.loads[x]

(* C2: Pool isolation.  Every task submitted with pool name p was sent to a *)
(* worker that was a member of pool p at dispatch time, also when p is not  *)
(* a key of workerPools.                                                   *)
C2_PoolIsolation ==
  \A d \in Dispatches : d.worker \in d.inPool

(* C5: runningTasks of every worker is at least 0 in every reachable state. *)
C5_RunningTasksNonNegative ==
  \A w \in DOMAIN handles : handles[w].runningTasks >= 0

C5_Witness ==
  /\ \E i \in DOMAIN called : TRUE
  /\ \E d \in Dispatches : handles[d.worker].runningTasks = 0
  /\ \E w \in DOMAIN sent : \E i \in DOMAIN sent[w] : sent[w][i].type = MESSAGE_TYPES.TERMINATE

(* C6: Between handlers, the id of every accepted task whose callback has   *)
(* not been invoked is in exactly one of the pending queue and the          *)
(* callbacks map.                                                          *)
C6_InFlightInOnePlace ==
  \A i \in Accepted :
    ~Notified(i) => ((subs[i].id \in PendingIds) # (subs[i].id \in DOMAIN taskCallbacks))

C6_Witness ==
  /\ \E i \in Accepted : ~Notified(i) /\ subs[i].id \in DOMAIN taskCallbacks
  /\ \E i \in Accepted : Notified(i) /\ subs[i].id \notin DOMAIN taskCallbacks

(* C8: Work-conserving dispatch.  At the end of no handler is the pending   *)
(* queue non-empty while a worker of the pool targeted by its head has      *)
(* runningTasks = 0.                                                       *)
C8_WorkConserving ==
  ~ /\ pendingTasks # <<>>
    /\ \E w \in Range(candidatePool(Mgr, Head(pendingTasks).task)) :
         handles[w].runningTasks = 0

C8_Witness ==
  /\ pendingTasks = <<>>
  /\ \E d \in Dispatches : d.loads[d.worker] = 0 /\ Cardinality(Range(d.candidates)) > 1

(* C10: Tie-break by insertion order.  The task goes to the earliest        *)
(* inserted worker among those with the minimum runningTasks; so with no    *)
(* reply so far, the k-th of the submissions to one pool whose workers all  *)
(* had runningTasks = 0 goes to the k-th worker of the pool, k <= n.        *)
C10_TieBreakInsertionOrder ==
  /\ \A d \in Dispatches :
       LET first == CHOOSE i \in DOMAIN d.candidates :
                      /\ d.loads[d.candidates[i]] = MinLoad(d)
                      /\ \A j \in 1..(i - 1) : d.loads[d.candidates[j]] # MinLoad(d)
       IN d.worker = d.candidates[first]
  /\ \A p \in DOMAIN workerPools :
       (called = <<>> /\ \A d \in Dispatches : d.poolName = p)
       => \A k \in 1..Min(Len(dispatchLog), Len(workerPools[p])) :
            dispatchLog[k].worker = workerPools[p][k]

C10_Witness ==
  /\ called = <<>>
  /\ Len(dispatchLog) = 2
  /\ \E p \in DOMAIN workerPools :
       /\ Len(workerPools[p]) >= 2
       /\ \A d \in Dispatches : d.poolName = p
       /\ dispatchLog[1].worker = workerPools[p][1]
       /\ dispatchLog[2].worker = workerPools[p][2]

(* C3: Unknown-pool rejection.  Submitting a pool task (addWorkerTask,      *)
(* executePoolWorkerTask) with a poolName that is not a key of workerPools  *)
(* returns {ok:false, message:"Worker pool <name> does not exist"}, leaves  *)
(* pendingTasks, taskCallbacks and every worker's runningTasks unchanged,   *)
(* and its callback is never invoked nor registered afterwards.             *)
C3_RejectedCall ==
  (/\ Len(subs') = Len(subs) + 1
   /\ lastRet'.poolName # OneShotPool
   /\ lastRet'.poolName \notin DOMAIN workerPools)
  => /\ ~lastRet'.threw
     /\ lastRet'.ret = ReturnObject(FALSE, <<"Worker pool ", lastRet'.poolName,
                                             " does not exist">>)
     /\ pendingTasks' = pendingTasks
     /\ taskCallbacks' = taskCallbacks
     /\ handles' = handles
     /\ called' = called

C3_UnknownPoolRejection ==
  /\ [][C3_RejectedCall]_vars
  /\ [](\A i \in DOMAIN subs :
          (/\ inited
           /\ subs[i].poolName # OneShotPool
           /\ subs[i].poolName \notin DOMAIN workerPools)
          => /\ ~Notified(i)
             /\ \A id \in DOMAIN taskCallbacks : taskCallbacks[id] # i
             /\ \A k \in DOMAIN pendingTasks : pendingTasks[k].callback # i)

(* C4: Exactly-once callback.  No callback is invoked more than once, and   *)
(* the callback of an accepted task that was sent to a worker is eventually *)
(* invoked exactly once with the reply to that task, unless that worker     *)
(* exits first.  Sent tasks stay sent and answers stay given, so "every     *)
(* sent task is eventually answered" is stated as: again and again, every   *)
(* task sent so far is answered or its worker has exited.                   *)
C4_Sent(i) == i \in Accepted /\ Dispatched(subs[i].id)

C4_AnsweredOrExited(i) ==
  /\ C4_Sent(i)
  /\ \/ proc[dispatchLog[DispatchIndex(subs[i].id)].worker] = "exited"
     \/ /\ Notified(i)
        /\ Len(called[i]) = 1
        /\ called[i][1].id = subs[i].id

C4_ExactlyOnceCallback ==
  /\ [](\A i \in DOMAIN called : Len(called[i]) <= 1)
  /\ []<>(\A i \in 1..MaxTasks : C4_Sent(i) => C4_AnsweredOrExited(i))

C4_Witness ==
  \E i \in Accepted :
    /\ C4_AnsweredOrExited(i)
    /\ Notified(i)
    /\ proc[dispatchLog[DispatchIndex(subs[i].id)].worker] = "running"

(* C7: Task conservation.  As stated: the quantity (sum of runningTasks of  *)
(* all workers) + |pending| + |callbacks| - |completed, not yet called| is  *)
(* the same in every state.                                                *)
RECURSIVE SumRunning(_)
SumRunning(ws) ==
  IF ws = <<>> THEN 0 ELSE handles[Head(ws)].runningTasks + SumRunning(Tail(ws))

CompletedNotCalled ==
  {i \in Accepted :
     /\ Dispatched(subs[i].id)
     /\ ~Notified(i)
     /\ LET w == dispatchLog[DispatchIndex(subs[i].id)].worker
        IN proc[w] = "running" /\ subs[i].id \notin working[w]}

Quantity ==
  SumRunning(workerSet) + Len(pendingTasks) + Cardinality(DOMAIN taskCallbacks)
  - Cardinality(CompletedNotCalled)

C9_FIFODispatch ==
  \A i, j \in Accepted :
    (i < j /\ subs[i].poolName = subs[j].poolName /\ Dispatched(subs[j].id))
    => /\ Dispatched(subs[i].id)
       /\ DispatchIndex(subs[i].id) < DispatchIndex(subs[j].id)

C9_Witness ==
  \E i, j \in Accepted :
    /\ i < j /\ subs[i].poolName = subs[j].poolName
    /\ Dispatched(subs[i].id) /\ Dispatched(subs[j].id)

-----------------------------------------------------------------------------
(* The workers whose "exit" event this step handles. *)
ExitHandled(w) == w \in DOMAIN exits' /\ w \notin DOMAIN exits

(* C11: Exit removes the worker.  When the exit event of a pool worker is   *)
(* handled, whatever the code and signal, the worker is afterwards in       *)
(* neither workerSet nor the set of its own pool (a replacement, if any,    *)
(* is spawned after the removal and stays in both).                         *)
C11_ExitStep ==
  \A w \in DOMAIN handles :
    ExitHandled(w)
    => /\ w \notin Range(workerSet')
       /\ w \notin Range(workerPools'[handles[w].poolName])
       /\ \A n \in DOMAIN handles' \ DOMAIN handles :
            n \in Range(workerSet') /\ n \in Range(workerPools'[handles'[n].poolName])

C11_ExitRemovesWorker == [][C11_ExitStep]_vars

(* C12: Crash restart.  When a pool worker exits with a non-zero code,      *)
(* exactly one replacement is spawned with the script, poolName and         *)
(* memoryLimit of the exited worker and is added to that pool, whose size   *)
(* is then what it was before the crash.                                    *)
C12_CrashStep ==
  \A w \in DOMAIN handles :
    (ExitHandled(w) /\ exits'[w].code # "0")
    => LET pool == handles[w].poolName
           new == DOMAIN handles' \ DOMAIN handles
       IN /\ Cardinality(new) = 1
          /\ \A n \in new :
               /\ handles'[n].workerScript = handles[w].workerScript
               /\ handles'[n].poolName = pool
               /\ handles'[n].memoryLimit = handles[w].memoryLimit
               /\ n \in Range(workerPools'[pool])
          /\ Len(workerPools'[pool]) = Len(workerPools[pool])

C12_CrashRestart == [][C12_CrashStep]_vars

(* C13: Worker crash mid-task.  When a worker exits abnormally while tasks  *)
(* dispatched to it are unanswered, the callback of each such task is       *)
(* invoked exactly once, with an ERROR reply (ok false, data "worker        *)
(* exited unexpectedly"), and its taskCallbacks entry is deleted.           *)
C13_CrashStep ==
  \A w \in DOMAIN handles :
    (ExitHandled(w) /\ exits'[w].code # "0")
    => \A id \in working[w] \cap DOMAIN taskCallbacks :
         LET cb == taskCallbacks[id]
         IN /\ id \notin DOMAIN taskCallbacks'
            /\ cb \in DOMAIN called'
            /\ Len(called'[cb]) = 1
            /\ called'[cb][1] = [type |-> MESSAGE_TYPES.ERROR, id |-> id, ok |-> FALSE,
                                 data |-> "worker exited unexpectedly"]

C13_CrashMidTask == [][C13_CrashStep]_vars

(* C14: Graceful termination.  terminateWorkers() with no pool name sends   *)
(* one TERMINATE to every worker of workerSet; once each worker has exited  *)
(* with code 0 in response, no replacement has been spawned, workerSet and  *)
(* every pool set are empty, and the stats list no worker.                  *)
Running == {w \in DOMAIN proc : proc[w] = "running"}
Terminated == {w \in DOMAIN sent :
                 \E i \in DOMAIN sent[w] : sent[w][i].type = MESSAGE_TYPES.TERMINATE}

C14_TerminateStep ==
  (/\ terminateCalls' = terminateCalls + 1
   /\ lastRet'.poolName = NULL)
  => /\ ~lastRet'.threw
     /\ \A w \in Range(workerSet) :
          sent'[w] = Append(sent[w], [type |-> MESSAGE_TYPES.TERMINATE])

C14_GracefulTermination ==
  /\ [][C14_TerminateStep]_vars
  /\ []((/\ terminateCalls > 0
          /\ Terminated # {}
          /\ \A w \in Terminated : w \in DOMAIN exits /\ exits[w].code = "0")
         => /\ DOMAIN handles = Terminated
            /\ workerSet = <<>>
            /\ \A p \in DOMAIN workerPools : workerPools[p] = <<>>
            /\ getWorkerStatus(Mgr, NULL, Running).ret.message = <<>>)

(* C15: One-shot lifecycle.  A worker spawned by executeOneShotWorkerTask   *)
(* is sent exactly one WORK message in its lifetime and is never a member   *)
(* of a named pool; on its single reply the callback is invoked once, the   *)
(* taskCallbacks entry is deleted and TERMINATE is sent to it; it is not    *)
(* replaced after it exits.                                                 *)
OneShots == {w \in DOMAIN handles : handles[w].poolName = OneShotPool}
WorkSent(w) == {i \in DOMAIN sent[w] : sent[w][i].type = MESSAGE_TYPES.WORK}

C15_OneWorkNoPool ==
  \A w \in OneShots :
    /\ Cardinality(WorkSent(w)) = 1
    /\ \A p \in DOMAIN workerPools : w \notin Range(workerPools[p])

C15_ReplyStep ==
  \A w \in OneShots :
    (alive /\ proc'[w] = "running" /\ working'[w] # working[w])
    => \A id \in working[w] \ working'[w] :
         /\ id \in DOMAIN taskCallbacks /\ id \notin DOMAIN taskCallbacks'
         /\ Len(called'[taskCallbacks[id]]) = 1
         /\ called'[taskCallbacks[id]][1].id = id
         /\ sent'[w] = Append(sent[w], [type |-> MESSAGE_TYPES.TERMINATE])

C15_ExitStep ==
  \A w \in OneShots :
    ExitHandled(w) => (w \notin Range(workerSet') /\ DOMAIN handles' = DOMAIN handles)

C15_OneShotLifecycle ==
  /\ []C15_OneWorkNoPool
  /\ [][C15_ReplyStep /\ C15_ExitStep]_vars

(* C16: Fresh task ids.  The id an accepted pool task carries is assigned   *)
(* by the manager at submission, not taken from the task object the caller  *)
(* passed, and differs from every id in pendingTasks or taskCallbacks, so   *)
(* recording the callback at dispatch overwrites no entry.                  *)
C16_SubmitStep ==
  (/\ Len(subs') = Len(subs) + 1
   /\ subs'[Len(subs')].outcome = "accepted"
   /\ subs'[Len(subs')].poolName # OneShotPool)
  => LET sub == subs'[Len(subs')]
     IN /\ sub.id # lastRet'.given
        /\ sub.id \notin PendingIds \cup DOMAIN taskCallbacks
        /\ \A id \in DOMAIN taskCallbacks : taskCallbacks'[id] = taskCallbacks[id]

C16_FreshTaskIds == [][C16_SubmitStep]_vars

-----------------------------------------------------------------------------
(* The step in which initWorkerPools runs, and the descriptors of the list  *)
(* it was given that name a workerScript and a poolName.                    *)
InitStep == ~inited /\ inited'
Valid(d) == d.workerScript # "" /\ d.poolName # ""
ValidLoaded(l) == {i \in DOMAIN l : Valid(l[i])}
WorkersOf(h, poolName) == {w \in DOMAIN h : h[w].poolName = poolName}

RECURSIVE CountFor(_, _)
CountFor(l, poolName) ==
  IF l = <<>> THEN 0
  ELSE (IF Valid(Head(l)) /\ Head(l).poolName = poolName THEN Head(l).workerCount ELSE 0)
       + CountFor(Tail(l), poolName)

(* C17: initWorkerPools with a descriptor whose workerCount is 0 registers  *)
(* the pool name with an empty worker set: no worker is spawned for it.     *)
C17_InitStep ==
  InitStep
  => \A i \in ValidLoaded(loaded') :
       (loaded'[i].workerCount = 0 /\ CountFor(loaded', loaded'[i].poolName) = 0)
       => /\ loaded'[i].poolName \in DOMAIN workerPools'
          /\ workerPools'[loaded'[i].poolName] = <<>>
          /\ WorkersOf(handles', loaded'[i].poolName) = {}

C17_ZeroWorkerCount == [][C17_InitStep]_vars

(* C18: initWorkerPools validation.  A descriptor without workerScript or   *)
(* without poolName spawns no worker and registers no pool, and the         *)
(* descriptors after it are processed; every valid descriptor results in    *)
(* exactly workerCount workers in the pool named poolName, each also in     *)
(* workerSet with runningTasks = 0.                                         *)
C18_InitStep ==
  InitStep
  => /\ DOMAIN workerPools' = {loaded'[i].poolName : i \in ValidLoaded(loaded')}
     /\ \A p \in DOMAIN workerPools' :
          /\ Len(workerPools'[p]) = CountFor(loaded', p)
          /\ Range(workerPools'[p]) = WorkersOf(handles', p)
          /\ \A w \in Range(workerPools'[p]) :
               w \in Range(workerSet') /\ handles'[w].runningTasks = 0
     /\ \A w \in DOMAIN handles' : handles'[w].poolName \in DOMAIN workerPools'

C18_InitValidation == [][C18_InitStep]_vars

(* C19: Default memory limit.  The workers of a descriptor that omits       *)
(* workerMemoryLimit have memoryLimit 4096.                                 *)
C19_InitStep ==
  InitStep
  => \A i \in ValidLoaded(loaded') :
       loaded'[i].workerMemoryLimit = 0
       => \A w \in WorkersOf(handles', loaded'[i].poolName) :
            handles'[w].workerScript = loaded'[i].workerScript
            => handles'[w].memoryLimit = DefaultMemoryLimit

C19_DefaultMemoryLimit == [][C19_InitStep]_vars

(* C20: The submission of a task to an existing pool returns {ok:true} and  *)
(* raises no error to the submitter.                                        *)
C20_SubmitStep ==
  (/\ Len(subs') = Len(subs) + 1
   /\ lastRet'.poolName \in DOMAIN workerPools)
  => /\ ~lastRet'.threw
     /\ lastRet'.ret = ReturnObject(TRUE, <<>>)

C20_SubmitReturnsOk == [][C20_SubmitStep]_vars

-----------------------------------------------------------------------------
(* C21: getWorkerStatus(poolName) returns exactly one entry {poolName, pid, *)
(* runningTasks, stats} for each target worker whose probe succeeded and    *)
(* none for a worker whose probe failed, and changes none of workerPools,   *)
(* workerSet, pendingTasks, taskCallbacks and the runningTasks counters.    *)
StatsStep == lastRet' # lastRet /\ lastRet'.op = "getWorkerStatus" /\ ~lastRet'.threw
EntriesFor(entries, w) == {i \in DOMAIN entries : entries[i].pid = w}

C21_StatsStep ==
  StatsStep
  => LET target == IF lastRet'.poolName = NULL THEN workerSet
                   ELSE workerPools[lastRet'.poolName]
         entries == lastRet'.ret.message
     IN /\ \A w \in Range(target) :
             Cardinality(EntriesFor(entries, w)) = IF w \in lastRet'.probed THEN 1 ELSE 0
        /\ \A i \in DOMAIN entries :
             /\ entries[i].pid \in Range(target)
             /\ entries[i].poolName = handles[entries[i].pid].poolName
             /\ entries[i].runningTasks = handles[entries[i].pid].runningTasks
        /\ UNCHANGED <<workerSet, workerPools, pendingTasks, taskCallbacks, handles>>

C21_StatsEntries == [][C21_StatsStep]_vars

C21_Witness ==
  /\ lastRet.op = "getWorkerStatus" /\ ~lastRet.threw
  /\ Len(lastRet.ret.message) = 1
  /\ Len(workerSet) = 2
  /\ lastRet.poolName = NULL
  /\ \E w \in Range(workerSet) : handles[w].runningTasks > 0
-----------------------------------------------------------------------------
(* C22: the child answers every WORK message whose workload has ended with *)
(* exactly one message, WORK_DONE with ok = true or ERROR with ok = false, *)
(* carrying the id of the WORK message, and sends nothing for a WORK       *)
(* message whose workload has not ended; every message it sends answers an *)
(* INIT or a WORK message it received, so it sends nothing for TERMINATE   *)
(* and for a message of an unknown type.                                   *)
WorkReplies(w, id) ==
  {k \in DOMAIN replies[w] :
     /\ replies[w][k].id = id
     /\ replies[w][k].type \in {MESSAGE_TYPES.WORK_DONE, MESSAGE_TYPES.ERROR}}

C22_ChildProtocol ==
  \A w \in DOMAIN replies :
    /\ \A i \in DOMAIN sent[w] :
         sent[w][i].type = MESSAGE_TYPES.WORK
         => IF sent[w][i].id \in working[w]
            THEN WorkReplies(w, sent[w][i].id) = {}
            ELSE /\ Cardinality(WorkReplies(w, sent[w][i].id)) = 1
                 /\ \A k \in WorkReplies(w, sent[w][i].id) :
                      replies[w][k].ok = (replies[w][k].type = MESSAGE_TYPES.WORK_DONE)
    /\ \A k \in DOMAIN replies[w] :
         \E i \in DOMAIN sent[w] :
           /\ sent[w][i].id = replies[w][k].id
           /\ \/ sent[w][i].type = MESSAGE_TYPES.WORK
                 /\ replies[w][k].type \in {MESSAGE_TYPES.WORK_DONE, MESSAGE_TYPES.ERROR}
              \/ sent[w][i].type = MESSAGE_TYPES.INIT
                 /\ replies[w][k].type = MESSAGE_TYPES.INIT_DONE
    /\ \A k, l \in DOMAIN replies[w] : replies[w][k].id = replies[w][l].id => k = l

C22_Witness ==
  \E w \in DOMAIN replies :
    /\ \E k, l \in DOMAIN replies[w] :
         /\ replies[w][k].type = MESSAGE_TYPES.WORK_DONE
         /\ replies[w][l].type = MESSAGE_TYPES.ERROR
    /\ \E i \in DOMAIN sent[w] : sent[w][i].type = UnknownType
    /\ \E i \in DOMAIN sent[w] : sent[w][i].type = MESSAGE_TYPES.TERMINATE
-----------------------------------------------------------------------------
(* C23: no WORK message is sent to a worker whose "exit" event has been    *)
(* handled (state EXITED): a step adds no WORK message to the channel of   *)
(* such a worker.                                                          *)
C23_SendStep ==
  \A w \in DOMAIN exits :
    \A i \in DOMAIN sent'[w] :
      i > Len(sent[w]) => sent'[w][i].type # MESSAGE_TYPES.WORK

C23_NoDispatchToExited == [][C23_SendStep]_vars

(* A task was dispatched after the exit of a worker was handled. *)
C23_Witness ==
  \E w \in DOMAIN exits : Len(dispatchLog) > exits[w].at
-----------------------------------------------------------------------------
(* C24: the callbacks map has no entry for a task that was sent to a       *)
(* worker whose exit has been handled and which has left workerSet.        *)
SentTo(w) == {sent[w][i].id : i \in WorkSent(w)}

C24_NoCallbackOfExitedWorker ==
  \A w \in DOMAIN exits :
    w \notin Range(workerSet) => SentTo(w) \cap DOMAIN taskCallbacks = {}
-----------------------------------------------------------------------------
(* C25: registry consistency.  The pool workers in workerSet are the       *)
(* workers in the pool sets, and each of them is in the pool set named by  *)
(* its poolName and in no other.                                           *)
PoolWorkers == {w \in Range(workerSet) : handles[w].poolName # OneShotPool}

C25_RegistryConsistency ==
  /\ PoolWorkers = UNION {Range(workerPools[p]) : p \in DOMAIN workerPools}
  /\ \A w \in PoolWorkers :
       \A p \in DOMAIN workerPools :
         w \in Range(workerPools[p]) <=> p = handles[w].poolName
-----------------------------------------------------------------------------
(* C26: empty candidate set.  A submitted task for which processNextTask   *)
(* found no worker (the reduce of the empty candidate set threw) is still  *)
(* in the pending queue, or its callback has been invoked with an ERROR    *)
(* reply.                                                                  *)
C26_EmptyCandidatesNotLost ==
  \A i \in DOMAIN subs :
    subs[i].outcome = "threw"
    => \/ subs[i].id \in PendingIds
       \/ /\ subs[i].cb \in DOMAIN called
          /\ \E k \in DOMAIN called[subs[i].cb] :
               called[subs[i].cb][k].type = MESSAGE_TYPES.ERROR
-----------------------------------------------------------------------------
(* C27: one task per invocation.  In every state of the manager, a call of *)
(* processNextTask with a non-empty pending queue removes the head entry   *)
(* and nothing else from the queue, adds one callbacks entry, sends one    *)
(* WORK message and adds 1 to the runningTasks of one worker; with an      *)
(* empty queue it changes nothing.  Queue(p): a queue of two entries whose *)
(* head is a task for pool p.                                              *)
Entry(id, p) ==
  [task |-> [id |-> id, type |-> MESSAGE_TYPES.WORK, poolName |-> p], callback |-> id]
Queue(p) == <<Entry(nextId, p), Entry(nextId + 1, p)>>

OneTaskFrame(m, r) ==
  LET task == Head(m.pendingTasks).task
  IN /\ r.pendingTasks = Tail(m.pendingTasks)
     /\ task.id \notin DOMAIN m.taskCallbacks
     /\ DOMAIN r.taskCallbacks = DOMAIN m.taskCallbacks \cup {task.id}
     /\ \E w \in DOMAIN m.handles :
          /\ r.sent = [m.sent EXCEPT ![w] = Append(m.sent[w], task)]
          /\ r.handles = [m.handles EXCEPT ![w].runningTasks = m.handles[w].runningTasks + 1]

C27_OneTaskPerInvocation ==
  /\ alive /\ inited
     => \A p \in PoolNames \cup UnknownPools :
          LET m == [Mgr EXCEPT !.pendingTasks = Queue(p)]
          IN OneTaskFrame(m, processNextTask(m))
  /\ LET m == [Mgr EXCEPT !.pendingTasks = <<>>]
     IN processNextTask(m) = m
-----------------------------------------------------------------------------
(* C28: reply handling.  When the manager handles the WORK_DONE or ERROR   *)
(* reply of worker w to the task id, the runningTasks of w goes down by 1  *)
(* and no other counter changes; the callback stored under id is invoked   *)
(* once more, with the whole message the child sent, and its entry is      *)
(* deleted; and processNextTask runs after that: a task waiting in the     *)
(* queue would be dispatched with the counter of w already decremented and *)
(* the entry already deleted.                                              *)
ReplyOf(w, id) ==
  id \in working[w] /\ id \notin working'[w] /\ proc[w] = "running" /\ proc'[w] = "running"

WorkTask(w, id) ==
  sent[w][CHOOSE i \in DOMAIN sent[w] :
            sent[w][i].type = MESSAGE_TYPES.WORK /\ sent[w][i].id = id]

ChildReplies(w, id) == {onMessage(WorkTask(w, id), fails).sends[1] : fails \in BOOLEAN}

C28_ReplyStep ==
  \A w \in DOMAIN working : \A id \in working[w] :
    ReplyOf(w, id)
    => /\ handles' = [handles EXCEPT ![w].runningTasks = handles[w].runningTasks - 1]
       /\ IF id \in DOMAIN taskCallbacks
          THEN LET cb == taskCallbacks[id]
                   before == IF cb \in DOMAIN called THEN called[cb] ELSE <<>>
               IN /\ \E message \in ChildReplies(w, id) :
                       called' = MapSet(called, cb, Append(before, message))
                  /\ taskCallbacks' = MapDelete(taskCallbacks, id)
          ELSE called' = called /\ taskCallbacks' = taskCallbacks
       /\ \A message \in ChildReplies(w, id) :
            LET m == [Mgr EXCEPT !.pendingTasks = <<Entry(nextId, handles[w].poolName)>>]
                r == processWorkerMessage(m, w, message)
                d == r.dispatchLog[Len(r.dispatchLog)]
            IN /\ Len(r.dispatchLog) = Len(dispatchLog) + 1
               /\ d.id = nextId
               /\ d.loads[w] = handles[w].runningTasks - 1
               /\ DOMAIN r.taskCallbacks = (DOMAIN taskCallbacks \ {id}) \cup {nextId}

C28_ReplyHandling == [][C28_ReplyStep]_vars

C28_Witness ==
  \E i \in DOMAIN dispatchLog :
    LET d == dispatchLog[i]
    IN /\ alive
       /\ d.id \notin DOMAIN taskCallbacks
       /\ d.id \notin working[d.worker]
       /\ proc[d.worker] = "running"
       /\ \E cb \in DOMAIN called : \E k \in DOMAIN called[cb] : called[cb][k].id = d.id
-----------------------------------------------------------------------------
(* C29: every pool worker the manager holds has INIT as the first message  *)
(* on its channel, and INIT is sent to it once, so every WORK message sent *)
(* to a pool worker follows its INIT message.                              *)
C29_InitFirst ==
  \A w \in DOMAIN handles :
    handles[w].poolName # OneShotPool
    => /\ sent[w] # <<>>
       /\ sent[w][1].type = MESSAGE_TYPES.INIT
       /\ \A i \in DOMAIN sent[w] :
            sent[w][i].type = MESSAGE_TYPES.WORK
            => \E j \in 1..(i - 1) : sent[w][j].type = MESSAGE_TYPES.INIT

C29_Witness ==
  \E w \in Range(workerSet) :
    /\ handles[w].poolName # OneShotPool
    /\ \E i \in DOMAIN sent[w] : sent[w][i].type = MESSAGE_TYPES.WORK
-----------------------------------------------------------------------------
(* C30: duplicate pool names.  As stated: after initWorkerPools, the set   *)
(* of a pool holds only workers spawned for the last valid descriptor of   *)
(* that name (last-wins).                                                  *)
LastOf(l, p) ==
  CHOOSE i \in ValidLoaded(l) :
    /\ l[i].poolName = p
    /\ \A j \in ValidLoaded(l) : l[j].poolName = p => j <= i

WithScript(h, ws, d) == {w \in ws : h[w].workerScript = d.workerScript}

C30_LastWinsStep ==
  InitStep
  => \A p \in DOMAIN workerPools' :
       Range(workerPools'[p])
         = WithScript(handles', Range(workerPools'[p]), loaded'[LastOf(loaded', p)])

C30_AccumulateStep ==
  InitStep
  => \A p \in DOMAIN workerPools' :
       /\ Range(workerPools'[p]) = WorkersOf(handles', p)
       /\ \A i, j \in DOMAIN workerPools'[p] :
            i < j => workerPools'[p][i] < workerPools'[p][j]
       /\ \A i \in ValidLoaded(loaded') :
            loaded'[i].poolName = p
            => Cardinality(WithScript(handles', Range(workerPools'[p]), loaded'[i]))
                 >= loaded'[i].workerCount

-----------------------------------------------------------------------------
(* C31: terminateWorkers(poolName) for an existing pool, or without a pool *)
(* name, appends one TERMINATE message to the channel of every worker of   *)
(* the target set (the pool's set, or workerSet) and sends nothing to any  *)
(* other worker; it returns with no worker's exit handled, and leaves      *)
(* workerPools, workerSet, pendingTasks, taskCallbacks and every           *)
(* runningTasks as they were.                                              *)
TerminateCall == terminateCalls' = terminateCalls + 1

C31_TerminateStep ==
  (/\ TerminateCall
   /\ lastRet'.poolName = NULL \/ lastRet'.poolName \in DOMAIN workerPools)
  => LET target == IF lastRet'.poolName = NULL THEN Range(workerSet)
                   ELSE Range(workerPools[lastRet'.poolName])
     IN /\ ~lastRet'.threw
        /\ \A w \in DOMAIN sent :
             sent'[w] = IF w \in target
                        THEN Append(sent[w], [type |-> MESSAGE_TYPES.TERMINATE])
                        ELSE sent[w]
        /\ UNCHANGED <<workerSet, workerPools, pendingTasks, taskCallbacks, handles,
                       proc, exits, alive>>

C31_TerminateFrame == [][C31_TerminateStep]_vars

C31_Witness ==
  /\ lastRet.op = "terminateWorkers" /\ ~lastRet.threw
  /\ lastRet.poolName \in DOMAIN workerPools
  /\ \E w \in Range(workerPools[lastRet.poolName]) : w \in Terminated
  /\ \E w \in Range(workerSet) : w \notin Terminated
-----------------------------------------------------------------------------
(* C32: the pending queue is transient.  At the end of every handler the   *)
(* queue is empty, and every submission that returned normally has been    *)
(* dispatched: no task waits for a worker to have capacity, whatever the   *)
(* runningTasks of the workers.                                            *)
C32_PendingTransient ==
  /\ pendingTasks = <<>>
  /\ \A i \in Accepted : Dispatched(subs[i].id)

(* A worker holds every task submitted so far, and more than one. *)
C32_Witness ==
  /\ pendingTasks = <<>>
  /\ \E w \in Range(workerSet) :
       /\ handles[w].runningTasks > 1
       /\ handles[w].runningTasks = Cardinality(Accepted)
-----------------------------------------------------------------------------
(* C33: per-worker accounting.  While no worker has exited, the            *)
(* runningTasks of each worker is the number of callbacks entries whose    *)
(* task was dispatched to that worker, and the sum of runningTasks over    *)
(* the workers is the number of callbacks entries.                         *)
CallbacksAt(w) ==
  {id \in DOMAIN taskCallbacks : \E d \in Dispatches : d.id = id /\ d.worker = w}

C33_PerWorkerAccounting ==
  (\A w \in DOMAIN proc : proc[w] = "running")
  => /\ \A w \in DOMAIN handles :
          handles[w].runningTasks = Cardinality(CallbacksAt(w))
     /\ SumRunning(workerSet) = Cardinality(DOMAIN taskCallbacks)

(* A worker has answered one task and holds another. *)
C33_Witness ==
  /\ \A w \in DOMAIN proc : proc[w] = "running"
  /\ \E w \in DOMAIN handles :
       /\ handles[w].runningTasks = 1
       /\ \E d \in Dispatches : d.worker = w /\ d.id \notin DOMAIN taskCallbacks
-----------------------------------------------------------------------------
(* C34: callback routing.  Every reply a callback has been invoked with    *)
(* carries the id of the task the callback was submitted with, in whatever *)
(* order the replies arrive.                                               *)
C34_CallbackRouting ==
  \A cb \in DOMAIN called :
    \A k \in DOMAIN called[cb] :
      /\ cb \in DOMAIN subs
      /\ called[cb][k].id = subs[cb].id

(* Of two tasks sent to one worker, the later one was answered first. *)
C34_Witness ==
  \E i, j \in Accepted :
    /\ i < j
    /\ Dispatched(subs[i].id) /\ Dispatched(subs[j].id)
    /\ dispatchLog[DispatchIndex(subs[i].id)].worker
         = dispatchLog[DispatchIndex(subs[j].id)].worker
    /\ Notified(j) /\ ~Notified(i)
-----------------------------------------------------------------------------
(* C35: a WORK_DONE or ERROR message of worker w whose id has no callbacks *)
(* entry invokes no callback and leaves the callbacks map as it was, takes *)
(* 1 off the runningTasks of w and of no other worker, and still calls     *)
(* processNextTask: a task waiting in the queue would be dispatched.       *)
StrayOf(w) ==
  /\ w \in DOMAIN replies'
  /\ Len(replies'[w]) = (IF w \in DOMAIN replies THEN Len(replies[w]) ELSE 0) + 1

C35_StrayStep ==
  \A w \in DOMAIN handles :
    StrayOf(w)
    => LET message == replies'[w][Len(replies'[w])]
           m == [Mgr EXCEPT !.pendingTasks = <<Entry(nextId, handles[w].poolName)>>]
           r == processWorkerMessage(m, w, message)
       IN /\ message.id \notin DOMAIN taskCallbacks
          /\ called' = called
          /\ taskCallbacks' = taskCallbacks
          /\ handles' = [handles EXCEPT ![w].runningTasks = handles[w].runningTasks - 1]
          /\ r.pendingTasks = <<>>
          /\ Len(r.dispatchLog) = Len(dispatchLog) + 1
          /\ r.dispatchLog[Len(r.dispatchLog)].loads[w] = handles[w].runningTasks - 1

C35_StrayReply == [][C35_StrayStep]_vars

(* A worker answered a task a second time while another task was in       *)
(* flight, and a worker sent a reply without a known id.                   *)
C35_Witness ==
  \E w \in DOMAIN replies :
    /\ replies[w] # <<>>
    /\ alive
    /\ taskCallbacks # <<>>
    /\ \E d \in Dispatches : d.worker = w /\ d.id = replies[w][1].id
-----------------------------------------------------------------------------
(* C36: balanced load under submissions.  In a state reached from the idle *)
(* pool p by submissions to p alone, with no reply handled and no worker   *)
(* exited, the runningTasks of any two workers of p differ by at most 1.   *)
OnlySubmissionsTo(p) ==
  /\ called = <<>>
  /\ \A w \in DOMAIN proc : proc[w] = "running"
  /\ \A i \in DOMAIN subs : subs[i].poolName = p

C36_BalancedLoad ==
  \A p \in DOMAIN workerPools :
    OnlySubmissionsTo(p)
    => \A a, b \in Range(workerPools[p]) :
         handles[a].runningTasks - handles[b].runningTasks <= 1

C36_Witness ==
  \E p \in DOMAIN workerPools :
    /\ OnlySubmissionsTo(p)
    /\ Len(workerPools[p]) > 1
    /\ Len(subs) = MaxTasks
    /\ \E a \in Range(workerPools[p]) : handles[a].runningTasks > 0
-----------------------------------------------------------------------------
(* C37: re-entrant submission.  When the callback of the task id, invoked  *)
(* for the reply of worker w, submits a new task, then after the handler   *)
(* the callbacks map holds the entry of the new task and no longer that of *)
(* the answered task, every other entry being as before, and the new task  *)
(* was dispatched with the runningTasks of w already decremented.          *)
C37_ReentrantStep ==
  \A w \in DOMAIN working : \A id \in working[w] :
    (/\ ReplyOf(w, id)
     /\ Len(subs') = Len(subs) + 1
     /\ subs'[Len(subs')].outcome = "accepted")
    => LET new == subs'[Len(subs')]
           d == dispatchLog'[Len(dispatchLog')]
       IN /\ new.id \in DOMAIN taskCallbacks'
          /\ taskCallbacks'[new.id] = new.cb
          /\ id \notin DOMAIN taskCallbacks'
          /\ \A t \in DOMAIN taskCallbacks \ {id} :
               t \in DOMAIN taskCallbacks' /\ taskCallbacks'[t] = taskCallbacks[t]
          /\ DOMAIN taskCallbacks' \subseteq DOMAIN taskCallbacks \cup {new.id}
          /\ Len(dispatchLog') = Len(dispatchLog) + 1
          /\ d.id = new.id
          /\ w \in DOMAIN d.loads => d.loads[w] = handles[w].runningTasks - 1

C37_ReentrantSubmission == [][C37_ReentrantStep]_vars

(* The new task went to the replying worker, the first of a pool of        *)
(* several idle workers once its counter had been decremented.             *)
C37_Witness ==
  /\ lastRet.op = "addWorkerTask in callback" /\ alive
  /\ dispatchLog # <<>>
  /\ LET d == dispatchLog[Len(dispatchLog)]
     IN /\ d.id = lastRet.given
        /\ d.id \in DOMAIN taskCallbacks
        /\ d.loads[d.worker] = 0
        /\ \E v \in DOMAIN d.loads : v # d.worker /\ d.loads[v] = 0
        /\ \E e \in Dispatches :
             e.worker = d.worker /\ e.id # d.id /\ e.id \notin DOMAIN taskCallbacks
====
